---- MODULE Spec2Model ----
(***************************************************************************)
(* Model of examples/example-probes/src/xdp_udp_port_redirect/main.rs:     *)
(* the XDP program `portredirect`, which rewrites the UDP destination port *)
(* 9875 to 9876 in place.                                                  *)
(*                                                                         *)
(* A frame buffer is a sequence of bytes (0..255).  Addresses are byte     *)
(* offsets from ctx.data_start(), so data_start = 0 and data_end = Len.    *)
(* The byte at offset o of buffer b is b[o + 1].                           *)
(*                                                                         *)
(* Every invocation i has its own buffer buf[i] and a position pc[i] in    *)
(* the body of portredirect; one action models one statement of the body.  *)
(***************************************************************************)
EXTENDS Integers, Sequences, FiniteSets, TLC

VARIABLES
    endian,     \* byte order of the build target: "little" (bpfel) or "big" (bpfeb)
    n,          \* number of invocations the host has started
    input,      \* input[i]: the frame as it was when the current run of i began
    buf,        \* buf[i]: the frame buffer invocation i was handed (mutable)
    pc,         \* pc[i]: the statement invocation i executes next
    transport,  \* transport[i]: the local `transport` (line 50)
    ip,         \* ip[i]: the local `ip`, the offset of the IPv4 header (line 53)
    addr,       \* addr[i]: the local `addr` (line 74)
    result,     \* result[i]: the XdpResult returned, "none" while running
    log,        \* log[i]: the messages i has passed to bpf_trace_printk
    reads,      \* reads[i]: offsets of the bytes i has read
    writes,     \* writes[i]: offsets of the bytes i has written
    run,        \* run[i]: how many times the program ran on buf[i], this run included
    prev        \* prev[i]: the result and the log of the previous run on buf[i]

vars == <<endian, n, input, buf, pc, transport, ip, addr, result, log,
          reads, writes, run, prev>>

----------------------------------------------------------------------------
(* Bounds of the model *)

\* longest payload (bytes) that follows the transport header of a generated frame
MaxPayload == 1
\* how many times the host runs the program on the same buffer
MaxRuns == 2
\* number of concurrent invocations in SpecConc
MaxInv == 2

----------------------------------------------------------------------------
(* Program constants *)

MatchPort == 9875
RewritePort == 9876
\* size_of::<usize>() on the 64-bit BPF target
SizeOfUsize == 8
\* offset of the field `dest` in struct udphdr and struct tcphdr
DestFieldOffset == 2

\* layout of the kernel headers the redbpf_probes prelude binds
ETH_P_IP == 2048
IPPROTO_TCP == 6
IPPROTO_UDP == 17
SizeOfEthhdr == 14
SizeOfIphdr == 20
SizeOfUdphdr == 8
SizeOfTcphdr == 20

MsgNonUdp == "received non-UDP traffic, skipping"
MsgGotUdp == "got UDP traffic on port 9875"
MsgRedirected == "redirected UDP traffic from port 9875 to 9876"

OkPass == "Ok(Pass)"
ErrOutOfBounds == "Err(OutOfBounds)"
ErrNoIPHeader == "Err(NoIPHeader)"
ErrUnsupportedTransport == "Err(UnsupportedTransport)"
Panic == "panic(unreachable)"

----------------------------------------------------------------------------
(* Integer and byte-order primitives *)

Byte(b, off) == b[off + 1]

\* u16::swap_bytes
swap_bytes(x) == (x % 256) * 256 + (x \div 256)

\* u16::from_be: the identity on a big-endian target, a byte swap otherwise
from_be(x) == IF endian = "big" THEN x ELSE swap_bytes(x)

\* a native-endian 16-bit load from the two bytes at off
Load16(b, off) ==
    IF endian = "big"
    THEN Byte(b, off) * 256 + Byte(b, off + 1)
    ELSE Byte(b, off + 1) * 256 + Byte(b, off)

\* a native-endian 16-bit store of v to the two bytes at off
Store16(b, off, v) ==
    LET b0 == IF endian = "big" THEN v \div 256 ELSE v % 256
        b1 == IF endian = "big" THEN v % 256 ELSE v \div 256
    IN [b EXCEPT ![off + 1] = b0, ![off + 2] = b1]

\* the value two bytes encode in network (big-endian) byte order
DecodeBE(b, off) == Byte(b, off) * 256 + Byte(b, off + 1)

----------------------------------------------------------------------------
(* redbpf_probes::net::NetworkBuffer, as portredirect uses it *)

data_start(b) == 0
data_end(b) == Len(b)

\* NetworkBuffer::check_bounds: TRUE when [start, end) lies inside the frame
check_bounds(b, start, end) ==
    /\ start < end
    /\ start >= data_start(b)
    /\ end <= data_end(b)

\* NetworkBuffer::ptr_at::<U>, with size = size_of::<U>()
ptr_at(b, a, size) == check_bounds(b, a, a + size)

\* iphdr::ihl(): the low four bits of the first header byte
ihl(b, iph) == Byte(b, iph) % 16

\* NetworkBuffer::eth
ctx_eth(b) ==
    IF ptr_at(b, data_start(b), SizeOfEthhdr)
    THEN [tag |-> "Ok", ptr |-> data_start(b)]
    ELSE [tag |-> ErrOutOfBounds, ptr |-> 0]

\* NetworkBuffer::ip
ctx_ip(b) ==
    LET eth == ctx_eth(b) IN
    IF eth.tag # "Ok" THEN eth
    ELSE IF Load16(b, eth.ptr + 12) # from_be(ETH_P_IP)
    THEN [tag |-> ErrNoIPHeader, ptr |-> 0]
    ELSE IF ptr_at(b, eth.ptr + SizeOfEthhdr, SizeOfIphdr)
    THEN [tag |-> "Ok", ptr |-> eth.ptr + SizeOfEthhdr]
    ELSE [tag |-> ErrOutOfBounds, ptr |-> 0]

\* NetworkBuffer::transport
ctx_transport(b) ==
    LET iph == ctx_ip(b) IN
    IF iph.tag # "Ok" THEN [tag |-> iph.tag, hdr |-> 0]
    ELSE
      LET a == iph.ptr + ihl(b, iph.ptr) * 4
          protocol == Byte(b, iph.ptr + 9)
      IN IF protocol = IPPROTO_TCP
         THEN IF ptr_at(b, a, SizeOfTcphdr)
              THEN [tag |-> "TCP", hdr |-> a]
              ELSE [tag |-> ErrOutOfBounds, hdr |-> 0]
         ELSE IF protocol = IPPROTO_UDP
         THEN IF ptr_at(b, a, SizeOfUdphdr)
              THEN [tag |-> "UDP", hdr |-> a]
              ELSE [tag |-> ErrOutOfBounds, hdr |-> 0]
         ELSE [tag |-> ErrUnsupportedTransport, hdr |-> 0]

\* the bytes NetworkBuffer::ip dereferences
IpReads(b) ==
    IF ctx_eth(b).tag = "Ok" THEN {12, 13} ELSE {}

\* the bytes NetworkBuffer::transport dereferences
TransportReads(b) ==
    IpReads(b) \cup
    (IF ctx_ip(b).tag = "Ok"
     THEN {ctx_ip(b).ptr, ctx_ip(b).ptr + 9}
     ELSE {})

\* Transport::dest: the header's dest field, converted from network order
dest(b, t) == from_be(Load16(b, t.hdr + DestFieldOffset))

IsErr(tag) == tag \in {ErrOutOfBounds, ErrNoIPHeader, ErrUnsupportedTransport}

----------------------------------------------------------------------------
(* The frames the host hands to the program *)

Zeros(k) == [j \in 1..k |-> 0]
U16BE(v) == <<v \div 256, v % 256>>

\* Ethernet header, IPv4 header of hl words (the fixed 20 bytes are always
\* laid out, options follow when hl > 5), then the transport header with
\* sport and dport in network byte order, then paylen payload bytes.
MkFrame(etype, hl, proto, totlen, sport, dport, paylen) ==
    Zeros(12) \o U16BE(etype)
    \o <<64 + hl, 0>> \o U16BE(totlen) \o Zeros(5) \o <<proto>> \o Zeros(10)
    \o Zeros(IF hl > 5 THEN (hl - 5) * 4 ELSE 0)
    \o U16BE(sport) \o U16BE(dport) \o Zeros(4)
    \o (IF proto = IPPROTO_TCP THEN Zeros(SizeOfTcphdr - SizeOfUdphdr) ELSE <<>>)
    \o [j \in 1..paylen |-> 116]

\* IPv4 and ARP
EtherTypes == {ETH_P_IP, 2054}
\* a header length below the legal minimum, no options, one option word, the maximum
IhlValues == {0, 5, 6, 15}
\* ICMP, TCP, UDP
Protocols == {1, IPPROTO_TCP, IPPROTO_UDP}
SrcPorts == {36611, MatchPort}
\* the match port, the rewrite port, DNS, and the match port byte-swapped
DstPorts == {MatchPort, RewritePort, 53, swap_bytes(MatchPort)}

FullFrames ==
    {MkFrame(p[1], p[2], p[3], 28, p[4], p[5], p[6]) :
        p \in EtherTypes \X IhlValues \X Protocols \X SrcPorts \X DstPorts
              \X (0..MaxPayload)}
    \cup
    {MkFrame(ETH_P_IP, 0, p[1], MatchPort, 36611, p[2], 0) :
        p \in Protocols \X DstPorts}

\* every frame, and every truncation of it
Frames == UNION {{SubSeq(f, 1, k) : k \in 0..Len(f)} : f \in FullFrames}

\* the frames of the concurrent runs: UDP to the match port (no options, one
\* option word), UDP to another port, TCP to the match port, ARP, and a UDP
\* frame cut inside its transport header
ConcFrames ==
    { MkFrame(ETH_P_IP, 5, IPPROTO_UDP, 28, 36611, MatchPort, 0),
      MkFrame(ETH_P_IP, 6, IPPROTO_UDP, 28, 36611, MatchPort, 1),
      MkFrame(ETH_P_IP, 5, IPPROTO_UDP, 28, MatchPort, 53, 0),
      MkFrame(ETH_P_IP, 5, IPPROTO_TCP, 28, 36611, MatchPort, 0),
      MkFrame(2054, 5, IPPROTO_UDP, 28, 36611, MatchPort, 0),
      SubSeq(MkFrame(ETH_P_IP, 5, IPPROTO_UDP, 28, 36611, MatchPort, 0), 1, 38) }

----------------------------------------------------------------------------
(* portredirect, statement by statement *)

Inv == 1..n

\* a slip: every invocation works on one shared buffer
CtxShared(i) == 1

\* the frame buffer behind the XdpContext invocation i received (line 49)
Ctx(i) == i

\* a slip: the header length taken as the fixed 20 bytes of an IPv4 header
\* without options
TransportAddrFixed(b, iph) == iph + SizeOfIphdr

\* line 74: ip as usize + ((*ip).ihl() * 4) as usize
TransportAddr(b, iph) == iph + ihl(b, iph) * 4

\* a slip: the store goes to the first field of the header, the source port
DestPtrSource(a) == a

\* a slip: the end of the checked span taken for the pointer
DestPtrPastSpan(a) == a + SizeOfUsize

\* the offset the store `(*hdr).dest = ...` writes, hdr being `addr as *mut udphdr`
DestPtr(a) == a + DestFieldOffset

\* a slip: every recognised transport taken for UDP
matches_Any(t) == t.tag \in {"UDP", "TCP"}

\* line 65: matches!(transport, Transport::UDP(_))
matches_UDP(t) == t.tag = "UDP"

Finish(i, r) ==
    /\ result' = [result EXCEPT ![i] = r]
    /\ pc' = [pc EXCEPT ![i] = "done"]

Goto(i, l) ==
    /\ pc' = [pc EXCEPT ![i] = l]
    /\ UNCHANGED result

\* a slip: a failed parse handled like the NoIPHeader arm of line 54
L50_TransportLenient(i) ==
    /\ pc[i] = "L50"
    /\ LET t == ctx_transport(buf[Ctx(i)]) IN
        /\ reads' = [reads EXCEPT ![i] = @ \cup TransportReads(buf[Ctx(i)])]
        /\ IF IsErr(t.tag)
           THEN Finish(i, OkPass) /\ UNCHANGED transport
           ELSE Goto(i, "L53") /\ transport' = [transport EXCEPT ![i] = t]
    /\ UNCHANGED <<endian, n, input, buf, ip, addr, log, writes, run, prev>>

\* a slip: the `?` left off line 50, the parse result unwrapped only at line 60
L50_TransportDeferred(i) ==
    /\ pc[i] = "L50"
    /\ reads' = [reads EXCEPT ![i] = @ \cup TransportReads(buf[Ctx(i)])]
    /\ transport' = [transport EXCEPT ![i] = ctx_transport(buf[Ctx(i)])]
    /\ Goto(i, "L53")
    /\ UNCHANGED <<endian, n, input, buf, ip, addr, log, writes, run, prev>>

\* line 50: let transport = ctx.transport()?;
L50_Transport(i) ==
    /\ pc[i] = "L50"
    /\ LET t == ctx_transport(buf[Ctx(i)]) IN
        /\ reads' = [reads EXCEPT ![i] = @ \cup TransportReads(buf[Ctx(i)])]
        /\ IF IsErr(t.tag)
           THEN Finish(i, t.tag) /\ UNCHANGED transport
           ELSE Goto(i, "L53") /\ transport' = [transport EXCEPT ![i] = t]
    /\ UNCHANGED <<endian, n, input, buf, ip, addr, log, writes, run, prev>>

\* lines 53-57: let ip = match ctx.ip() { ... };
L53_Ip(i) ==
    /\ pc[i] = "L53"
    /\ LET r == ctx_ip(buf[Ctx(i)]) IN
        /\ reads' = [reads EXCEPT ![i] = @ \cup IpReads(buf[Ctx(i)])]
        /\ IF r.tag = ErrNoIPHeader
           THEN Finish(i, OkPass) /\ UNCHANGED ip
           ELSE IF r.tag # "Ok"
           THEN Finish(i, Panic) /\ UNCHANGED ip
           ELSE Goto(i, "L60") /\ ip' = [ip EXCEPT ![i] = r.ptr]
    /\ UNCHANGED <<endian, n, input, buf, transport, addr, log, writes, run,
                   prev>>

\* a slip: the protocol test of line 65 placed before the port test of line 60
L60_PortAfterProto(i) ==
    /\ pc[i] = "L60"
    /\ ~IsErr(transport[i].tag)
    /\ reads' = [reads EXCEPT ![i] = @ \cup
                   {transport[i].hdr + DestFieldOffset,
                    transport[i].hdr + DestFieldOffset + 1}]
    /\ IF ~matches_UDP(transport[i])
       THEN /\ log' = [log EXCEPT ![i] = Append(@, MsgNonUdp)]
            /\ Finish(i, OkPass)
       ELSE /\ UNCHANGED log
            /\ IF dest(buf[Ctx(i)], transport[i]) # MatchPort
               THEN Finish(i, OkPass)
               ELSE Goto(i, "L70")
    /\ UNCHANGED <<endian, n, input, buf, transport, ip, addr, writes, run, prev>>

\* lines 60-62: if transport.dest() != 9875 { return Ok(XdpAction::Pass); }
\* (transport holds a parsed header here: line 50 returned on every error)
L60_Port(i) ==
    /\ pc[i] = "L60"
    /\ ~IsErr(transport[i].tag)
    /\ reads' = [reads EXCEPT ![i] = @ \cup
                   {transport[i].hdr + DestFieldOffset,
                    transport[i].hdr + DestFieldOffset + 1}]
    /\ IF dest(buf[Ctx(i)], transport[i]) # MatchPort
       THEN Finish(i, OkPass)
       ELSE Goto(i, "L65")
    /\ UNCHANGED <<endian, n, input, buf, transport, ip, addr, log, writes, run,
                   prev>>

\* lines 65-68: if !matches!(transport, Transport::UDP(_)) { trace; return Ok(Pass) }
L65_Proto(i) ==
    /\ pc[i] = "L65"
    /\ IF ~matches_UDP(transport[i])
       THEN /\ log' = [log EXCEPT ![i] = Append(@, MsgNonUdp)]
            /\ Finish(i, OkPass)
       ELSE /\ Goto(i, "L70")
            /\ UNCHANGED log
    /\ UNCHANGED <<endian, n, input, buf, transport, ip, addr, reads, writes, run,
                   prev>>

\* a slip: the message of line 80 pasted into line 70
L70_TraceWrongMsg(i) ==
    /\ pc[i] = "L70"
    /\ log' = [log EXCEPT ![i] = Append(@, MsgRedirected)]
    /\ Goto(i, "L74")
    /\ UNCHANGED <<endian, n, input, buf, transport, ip, addr, reads, writes, run,
                   prev>>

\* line 70: bpf_trace_printk(b"got UDP traffic on port 9875\0");
L70_Trace(i) ==
    /\ pc[i] = "L70"
    /\ log' = [log EXCEPT ![i] = Append(@, MsgGotUdp)]
    /\ Goto(i, "L74")
    /\ UNCHANGED <<endian, n, input, buf, transport, ip, addr, reads, writes, run,
                   prev>>

\* lines 74-75: let addr = ip as usize + ((*ip).ihl() * 4) as usize;
\*              ctx.check_bounds(addr, addr + size_of::<usize>())?;
L74_Bounds(i) ==
    /\ pc[i] = "L74"
    /\ LET a == TransportAddr(buf[Ctx(i)], ip[i]) IN
        /\ addr' = [addr EXCEPT ![i] = a]
        /\ reads' = [reads EXCEPT ![i] = @ \cup {ip[i]}]
        /\ IF check_bounds(buf[Ctx(i)], a, a + SizeOfUsize)
           THEN Goto(i, "L77")
           ELSE Finish(i, ErrOutOfBounds)
    /\ UNCHANGED <<endian, n, input, buf, transport, ip, log, writes, run,
                   prev>>

\* lines 76-77: let hdr = addr as *mut udphdr; (*hdr).dest = u16::from_be(9876);
L77_Write(i) ==
    /\ pc[i] = "L77"
    /\ LET p == DestPtr(addr[i]) IN
        /\ writes' = [writes EXCEPT ![i] = @ \cup {p, p + 1}]
        /\ IF p >= 0 /\ p + 1 < Len(buf[Ctx(i)])
           THEN buf' = [buf EXCEPT ![Ctx(i)] = Store16(@, p, from_be(RewritePort))]
           ELSE UNCHANGED buf   \* a store outside the frame touches no byte of it
    /\ Goto(i, "L80")
    /\ UNCHANGED <<endian, n, input, transport, ip, addr, log, reads, run,
                   prev>>

\* line 80: bpf_trace_printk(b"redirected UDP traffic from port 9875 to 9876\0");
L80_Trace(i) ==
    /\ pc[i] = "L80"
    /\ log' = [log EXCEPT ![i] = Append(@, MsgRedirected)]
    /\ Goto(i, "L82")
    /\ UNCHANGED <<endian, n, input, buf, transport, ip, addr, reads, writes, run,
                   prev>>

\* line 82: Ok(XdpAction::Pass)
L82_Return(i) ==
    /\ pc[i] = "L82"
    /\ Finish(i, OkPass)
    /\ UNCHANGED <<endian, n, input, buf, transport, ip, addr, log, reads, writes,
                   run, prev>>

\* portredirect run from entry to return on frame b, alone: the result, the
\* frame it leaves and the messages it emits
portredirect(b) ==
    LET t == ctx_transport(b)
        r == ctx_ip(b)
        a == TransportAddr(b, r.ptr)
    IN IF IsErr(t.tag)
       THEN [result |-> t.tag, buf |-> b, log |-> <<>>]
       ELSE IF r.tag = ErrNoIPHeader
       THEN [result |-> OkPass, buf |-> b, log |-> <<>>]
       ELSE IF r.tag # "Ok"
       THEN [result |-> Panic, buf |-> b, log |-> <<>>]
       ELSE IF dest(b, t) # MatchPort
       THEN [result |-> OkPass, buf |-> b, log |-> <<>>]
       ELSE IF ~matches_UDP(t)
       THEN [result |-> OkPass, buf |-> b, log |-> <<MsgNonUdp>>]
       ELSE IF ~check_bounds(b, a, a + SizeOfUsize)
       THEN [result |-> ErrOutOfBounds, buf |-> b, log |-> <<MsgGotUdp>>]
       ELSE [result |-> OkPass,
             buf |-> Store16(b, DestPtr(a), from_be(RewritePort)),
             log |-> <<MsgGotUdp, MsgRedirected>>]

NoTransport == [tag |-> "none", hdr |-> 0]

\* lines 48-49: the host runs the program again on the buffer a run left
Rerun(i) ==
    /\ pc[i] = "done"
    /\ run[i] < MaxRuns
    /\ run' = [run EXCEPT ![i] = @ + 1]
    /\ prev' = [prev EXCEPT ![i] = [result |-> result[i], log |-> log[i]]]
    /\ input' = [input EXCEPT ![i] = buf[Ctx(i)]]
    /\ pc' = [pc EXCEPT ![i] = "L50"]
    /\ result' = [result EXCEPT ![i] = "none"]
    /\ transport' = [transport EXCEPT ![i] = NoTransport]
    /\ ip' = [ip EXCEPT ![i] = 0]
    /\ addr' = [addr EXCEPT ![i] = 0]
    /\ log' = [log EXCEPT ![i] = <<>>]
    /\ reads' = [reads EXCEPT ![i] = {}]
    /\ writes' = [writes EXCEPT ![i] = {}]
    /\ UNCHANGED <<endian, n, buf>>

\* the state when the host has handed frames fs[1..k] to k invocations
Start(k, fs) ==
    /\ n = k
    /\ input = fs
    /\ buf = fs
    /\ pc = [i \in 1..k |-> "L50"]
    /\ transport = [i \in 1..k |-> NoTransport]
    /\ ip = [i \in 1..k |-> 0]
    /\ addr = [i \in 1..k |-> 0]
    /\ result = [i \in 1..k |-> "none"]
    /\ log = [i \in 1..k |-> <<>>]
    /\ reads = [i \in 1..k |-> {}]
    /\ writes = [i \in 1..k |-> {}]
    /\ run = [i \in 1..k |-> 1]
    /\ prev = [i \in 1..k |-> [result |-> "none", log |-> <<>>]]

\* one invocation, on any frame
Init ==
    /\ endian \in {"little", "big"}
    /\ \E f \in Frames : Start(1, [i \in 1..1 |-> f])

\* MaxInv invocations at once, each on its own frame
InitConc ==
    /\ endian \in {"little", "big"}
    /\ \E fs \in [1..MaxInv -> ConcFrames] : Start(MaxInv, fs)

Next ==
    \/ \E i \in Inv : L50_Transport(i)
    \/ \E i \in Inv : L53_Ip(i)
    \/ \E i \in Inv : L60_Port(i)
    \/ \E i \in Inv : L65_Proto(i)
    \/ \E i \in Inv : L70_Trace(i)
    \/ \E i \in Inv : L74_Bounds(i)
    \/ \E i \in Inv : L77_Write(i)
    \/ \E i \in Inv : L80_Trace(i)
    \/ \E i \in Inv : L82_Return(i)
    \/ \E i \in Inv : Rerun(i)

NextConc ==
    \/ \E i \in Inv : L50_Transport(i)
    \/ \E i \in Inv : L53_Ip(i)
    \/ \E i \in Inv : L60_Port(i)
    \/ \E i \in Inv : L65_Proto(i)
    \/ \E i \in Inv : L70_Trace(i)
    \/ \E i \in Inv : L74_Bounds(i)
    \/ \E i \in Inv : L77_Write(i)
    \/ \E i \in Inv : L80_Trace(i)
    \/ \E i \in Inv : L82_Return(i)

Spec == Init /\ [][Next]_vars

SpecConc == InitConc /\ [][NextConc]_vars

----------------------------------------------------------------------------
(* Frames as the wire format defines them, independent of the parser *)

EtherType(b) == DecodeBE(b, 12)
HdrLen(b) == Byte(b, SizeOfEthhdr) % 16
Proto(b) == Byte(b, SizeOfEthhdr + 9)
\* ip-header-start + ihl*4
TOff(b) == SizeOfEthhdr + HdrLen(b) * 4
\* the transport destination port, in network byte order
DstPort(b) == DecodeBE(b, TOff(b) + 2)
DstField(b) == {TOff(b) + 2, TOff(b) + 3}

\* a frame whose Ethernet header is whole
HasEth(b) == Len(b) >= SizeOfEthhdr
\* an IPv4 frame whose fixed header is whole
IsIPv4(b) == HasEth(b) /\ EtherType(b) = ETH_P_IP /\ Len(b) >= SizeOfEthhdr + SizeOfIphdr
\* a whole frame that is not IP (ARP)
NonIP(b) == HasEth(b) /\ EtherType(b) # ETH_P_IP /\ Len(b) >= SizeOfEthhdr + SizeOfIphdr
\* a whole IPv4 frame with a transport that is neither TCP nor UDP
OtherTransport(b) ==
    /\ IsIPv4(b) /\ HdrLen(b) >= 5
    /\ Proto(b) \notin {IPPROTO_TCP, IPPROTO_UDP}
    /\ Len(b) >= TOff(b) + SizeOfUdphdr
WellFormedUdp(b) ==
    /\ IsIPv4(b) /\ HdrLen(b) >= 5
    /\ Proto(b) = IPPROTO_UDP
    /\ Len(b) >= TOff(b) + SizeOfUdphdr
WellFormedTcp(b) ==
    /\ IsIPv4(b) /\ HdrLen(b) >= 5
    /\ Proto(b) = IPPROTO_TCP
    /\ Len(b) >= TOff(b) + SizeOfTcphdr
\* an IPv4 TCP or UDP frame cut so that the word at the transport offset does
\* not fit in the buffer
Truncated(b) ==
    /\ IsIPv4(b)
    /\ Proto(b) \in {IPPROTO_TCP, IPPROTO_UDP}
    /\ TOff(b) + SizeOfUsize > Len(b)

Range(s) == {s[k] : k \in 1..Len(s)}
Done(i) == pc[i] = "done"
Offsets(b) == 0..(Len(b) - 1)
SameOutside(i, S) ==
    /\ Len(buf[i]) = Len(input[i])
    /\ \A o \in Offsets(input[i]) \ S : Byte(buf[i], o) = Byte(input[i], o)

----------------------------------------------------------------------------
(* Claims *)

\* C1: for every well-formed IPv4/UDP frame to port 9875, with any header
\* length of 5 to 15 words, portredirect returns Ok(Pass) having written
\* exactly the two bytes of the destination port field at
\* ip-header-start + ihl*4 + 2; the field changes, decodes big-endian to 9876,
\* and every other byte of the frame is as in the input.
C1_ExactRewrite ==
    \A i \in Inv :
        (Done(i) /\ WellFormedUdp(input[i]) /\ DstPort(input[i]) = MatchPort)
        => /\ result[i] = OkPass
           /\ writes[i] = DstField(input[i])
           /\ SameOutside(i, DstField(input[i]))
           /\ DstPort(buf[i]) = RewritePort
           /\ buf[i] # input[i]

C1_Witness ==
    \E i \in Inv :
        /\ Done(i) /\ WellFormedUdp(input[i]) /\ DstPort(input[i]) = MatchPort
        /\ HdrLen(input[i]) = 15
        /\ result[i] = OkPass
        /\ DstPort(buf[i]) = RewritePort

\* C2: for every whole frame that is not IPv4/UDP (not IP, IP with another
\* transport, TCP) and every IPv4/UDP frame to a port other than 9875,
\* portredirect leaves the buffer as it was and returns Ok(Pass), not an error.
C2_PassthroughOk ==
    \A i \in Inv :
        (/\ Done(i)
         /\ \/ NonIP(input[i])
            \/ OtherTransport(input[i])
            \/ WellFormedTcp(input[i])
            \/ WellFormedUdp(input[i]) /\ DstPort(input[i]) # MatchPort)
        => /\ buf[i] = input[i]
           /\ writes[i] = {}
           /\ result[i] = OkPass

\* C3: for every IPv4 TCP or UDP frame cut so that the transport offset plus a
\* machine word exceeds the buffer end, portredirect writes nothing and
\* returns the bounds error.
C3_TruncatedFails ==
    \A i \in Inv :
        (Done(i) /\ Truncated(input[i]))
        => /\ result[i] = ErrOutOfBounds
           /\ writes[i] = {}
           /\ buf[i] = input[i]

C3_Witness ==
    \E i \in Inv :
        /\ Done(i) /\ Truncated(input[i])
        /\ Proto(input[i]) = IPPROTO_UDP
        /\ Len(input[i]) >= TOff(input[i]) + 4
        /\ DstPort(input[i]) = MatchPort
        /\ result[i] = ErrOutOfBounds

\* C4: on any frame every byte read and every byte written lies inside the
\* frame, and once check_bounds has passed the bytes of the store
\* (addr+2 .. addr+4) lie inside the checked span addr .. addr + one word,
\* which lies inside the frame.
C4_InBounds ==
    \A i \in Inv :
        /\ reads[i] \subseteq Offsets(buf[i])
        /\ writes[i] \subseteq Offsets(buf[i])
        /\ pc[i] = "L77"
           => /\ {DestPtr(addr[i]), DestPtr(addr[i]) + 1}
                     \subseteq addr[i]..(addr[i] + SizeOfUsize - 1)
              /\ addr[i]..(addr[i] + SizeOfUsize - 1) \subseteq Offsets(buf[i])
        /\ writes[i] # {} => writes[i] \subseteq addr[i]..(addr[i] + SizeOfUsize - 1)

\* the store on a frame that ends exactly where the checked span ends
C4_Witness ==
    \E i \in Inv :
        /\ writes[i] # {}
        /\ addr[i] + SizeOfUsize = Len(buf[i])
        /\ HdrLen(input[i]) = 6

\* C5: for every TCP frame whose destination port is 9875, portredirect
\* writes nothing, returns Ok(Pass) and emits the non-UDP message and no other.
C5_TcpSkipped ==
    \A i \in Inv :
        (Done(i) /\ WellFormedTcp(input[i]) /\ DstPort(input[i]) = MatchPort)
        => /\ buf[i] = input[i]
           /\ writes[i] = {}
           /\ result[i] = OkPass
           /\ log[i] = <<MsgNonUdp>>

C5_Witness ==
    \E i \in Inv :
        /\ Done(i) /\ WellFormedTcp(input[i]) /\ DstPort(input[i]) = MatchPort
        /\ log[i] = <<MsgNonUdp>>

\* C6: under every interleaving of concurrent invocations, a step of one
\* invocation changes nothing of another, and each invocation returns the
\* result, leaves the buffer and emits the messages of a run alone on its frame.
C6_Isolation ==
    [][\A i \in Inv :
          /\ pc'[i] = pc[i]
             => /\ buf'[i] = buf[i]
                /\ result'[i] = result[i]
                /\ log'[i] = log[i]
                /\ transport'[i] = transport[i]
                /\ ip'[i] = ip[i]
                /\ addr'[i] = addr[i]
          /\ pc'[i] = "done"
             => /\ result'[i] = portredirect(input[i]).result
                /\ buf'[i] = portredirect(input[i]).buf
                /\ log'[i] = portredirect(input[i]).log]_vars

\* one invocation has finished a rewrite while another is about to store
C6_Witness ==
    \E i, j \in Inv :
        /\ i # j
        /\ Done(i) /\ writes[i] # {} /\ buf[i] # input[i]
        /\ pc[j] = "L77"

\* C7: for every frame with a TCP or UDP header and a destination port other
\* than 9875, portredirect returns Ok(Pass), unmodified, with no message; the
\* non-UDP message is emitted only for destination port 9875.
C7_PortFirst ==
    \A i \in Inv :
        /\ (/\ Done(i)
            /\ WellFormedUdp(input[i]) \/ WellFormedTcp(input[i])
            /\ DstPort(input[i]) # MatchPort)
           => /\ result[i] = OkPass
              /\ buf[i] = input[i]
              /\ log[i] = <<>>
        /\ MsgNonUdp \in Range(log[i])
           => /\ Len(input[i]) >= TOff(input[i]) + 4
              /\ DstPort(input[i]) = MatchPort

C7_Witness ==
    \E i \in Inv :
        /\ Done(i) /\ WellFormedTcp(input[i])
        /\ DstPort(input[i]) = 53
        /\ result[i] = OkPass /\ log[i] = <<>>

\* the order of the messages, the bounds check and the store on the UDP path
C8_Order(i) ==
    /\ pc[i] \in {"L74", "L77"} => log[i] = <<MsgGotUdp>> /\ writes[i] = {}
    /\ pc[i] = "L80" => log[i] = <<MsgGotUdp>> /\ writes[i] # {}
    /\ MsgGotUdp \in Range(log[i]) => log[i][1] = MsgGotUdp
    /\ MsgRedirected \in Range(log[i])
       => /\ log[i] = <<MsgGotUdp, MsgRedirected>>
          /\ writes[i] # {}
          /\ buf[i] # input[i]

C9_NoPanic ==
    \A i \in Inv :
        /\ result[i] # Panic
        /\ pc[i] = "L53" => ctx_ip(buf[i]).tag \in {"Ok", ErrNoIPHeader}

C9_Witness ==
    \E i \in Inv :
        /\ pc[i] = "L60"
        /\ transport[i].tag = "TCP"
        /\ HdrLen(input[i]) = 15

\* C10 as stated: a second run on the buffer a first run left changes no
\* byte, emits no UDP message and returns Ok(Pass), for every frame.
C10_Original ==
    \A i \in Inv :
        (Done(i) /\ run[i] >= 2)
        => /\ buf[i] = input[i]
           /\ writes[i] = {}
           /\ MsgGotUdp \notin Range(log[i])
           /\ MsgRedirected \notin Range(log[i])
           /\ result[i] = OkPass

\* C10 amended: a second run changes no byte, emits no UDP message and
\* returns what the first run returned: Ok(Pass), or the first run's error.
C10_Amended ==
    \A i \in Inv :
        (Done(i) /\ run[i] >= 2)
        => /\ buf[i] = input[i]
           /\ writes[i] = {}
           /\ MsgGotUdp \notin Range(log[i])
           /\ MsgRedirected \notin Range(log[i])
           /\ result[i] = prev[i].result
           /\ result[i] # Panic

\* the second run on a frame the first run rewrote
C10_Witness ==
    \E i \in Inv :
        /\ Done(i) /\ run[i] = 2
        /\ prev[i].log = <<MsgGotUdp, MsgRedirected>>
        /\ result[i] = OkPass /\ log[i] = <<>>
        /\ DstPort(buf[i]) = RewritePort

====
